---------------------------- MODULE Spec2Model ----------------------------
(***************************************************************************)
(* Model of flopy/modflow/mfstr.py: ModflowStr.load, ModflowStr.write_file *)
(* and the helpers they use.  A line of text is a sequence of one-character*)
(* strings that ends with "\n", as file.readline() returns it; the empty   *)
(* sequence is what readline() returns at end of input.  A number held in  *)
(* an array cell is a decimal [m, e] standing for m * 10^e.                *)
(***************************************************************************)
EXTENDS Integers, Sequences, FiniteSets, TLC

(***************************************************************************)
(* Bounds of the model.                                                    *)
(***************************************************************************)
MaxNper == 3
MaxLines == 6
MaxComments == 1

(***************************************************************************)
(* Characters and tokens.                                                  *)
(***************************************************************************)
\* the sequence a function over 1..n is, with its elements worked out
Tuple(fn) == Tail(<<0>> \o fn)

Digits == <<"0", "1", "2", "3", "4", "5", "6", "7", "8", "9">>

IsDigit(c) == \E d \in 1..10 : Digits[d] = c

DigitVal(c) == (CHOOSE d \in 1..10 : Digits[d] = c) - 1

IsSpace(c) == c \in {" ", "\n", "\t"}

Upper == <<"A", "C", "D", "E", "L", "M", "N", "O", "P", "R", "S", "T", "U", "X">>

Lower == <<"a", "c", "d", "e", "l", "m", "n", "o", "p", "r", "s", "t", "u", "x">>

\* str.lower() on one character
LowerChar(c) ==
    IF \E n \in 1..Len(Upper) : Upper[n] = c
    THEN Lower[CHOOSE n \in 1..Len(Upper) : Upper[n] = c]
    ELSE c

\* str.lower()
lower(s) == Tuple([n \in 1..Len(s) |-> LowerChar(s[n])])

\* the positions where a maximal run of non-blank characters starts
TokenStarts(s) ==
    {n \in 1..Len(s) : ~IsSpace(s[n]) /\ (n = 1 \/ IsSpace(s[n - 1]))}

\* the positions where a maximal run of non-blank characters ends
TokenEnds(s) ==
    {n \in 1..Len(s) : ~IsSpace(s[n]) /\ (n = Len(s) \/ IsSpace(s[n + 1]))}

\* the k-th smallest member of a set of positions
Nth(S, k) == CHOOSE a \in S : Cardinality({b \in S : b < a}) = k - 1

\* the runs of s that start at the positions starts and end at the
\* positions ends, in order
Runs(s, starts, ends) ==
    Tuple([k \in 1..Cardinality(starts) |->
                SubSeq(s, Nth(starts, k), Nth(ends, k))])

\* line.strip().split(): the maximal runs of non-blank characters
SplitText(s) ==
    CHOOSE t \in {Runs(s, p[1], p[2]) : p \in {<<TokenStarts(s), TokenEnds(s)>>}} :
        TRUE

\* "needle in s" for strings
Contains(s, needle) ==
    \E n \in 0..(Len(s) - Len(needle)) :
        \A d \in 1..Len(needle) : s[n + d] = needle[d]

(***************************************************************************)
(* Conversions.  A conversion result is [ok, v]: ok = FALSE is ValueError. *)
(***************************************************************************)
Bad == [ok |-> FALSE, v |-> [m |-> 0, e |-> 0]]

Good(m, e) == [ok |-> TRUE, v |-> [m |-> m, e |-> e]]

RECURSIVE DigitsVal(_, _)
\* value of a string of digits, most significant first
DigitsVal(s, acc) ==
    IF s = <<>> THEN acc ELSE DigitsVal(Tail(s), acc * 10 + DigitVal(Head(s)))

AllDigits(s) == s # <<>> /\ \A n \in 1..Len(s) : IsDigit(s[n])

Unsigned(s) == IF s # <<>> /\ Head(s) \in {"-", "+"} THEN Tail(s) ELSE s

Sign(s) == IF s # <<>> /\ Head(s) = "-" THEN -1 ELSE 1

\* int(token): optional sign and decimal digits, anything else is ValueError
ToInt(tok) ==
    IF AllDigits(Unsigned(tok))
    THEN Good(Sign(tok) * DigitsVal(Unsigned(tok), 0), 0)
    ELSE Bad

RECURSIVE Normal(_, _)
\* the decimal m * 10^e without trailing zeros in m
Normal(m, e) ==
    IF m = 0 THEN [m |-> 0, e |-> 0]
    ELSE IF e < 0 /\ m % 10 = 0 THEN Normal(m \div 10, e + 1)
    ELSE [m |-> m, e |-> e]

DotAt(s) == IF \E n \in 1..Len(s) : s[n] = "."
            THEN CHOOSE n \in 1..Len(s) : s[n] = "."
            ELSE 0

\* float(token) for plain decimal literals: [sign] digits [. digits]
ToFloat(tok) ==
    LET u == Unsigned(tok)
        d == DotAt(u)
        ip == IF d = 0 THEN u ELSE SubSeq(u, 1, d - 1)
        fp == IF d = 0 THEN <<>> ELSE SubSeq(u, d + 1, Len(u))
    IN  IF /\ ip \o fp # <<>>
           /\ \A n \in 1..Len(ip \o fp) : IsDigit((ip \o fp)[n])
        THEN [ok |-> TRUE,
              v |-> Normal(Sign(tok) * DigitsVal(ip \o fp, 0), 0 - Len(fp))]
        ELSE Bad

(***************************************************************************)
(* Schema and arrays.  An array is a sequence of rows, a row a sequence of *)
(* cells, one per field of the dtype.                                      *)
(***************************************************************************)
I(n) == [m |-> n, e |-> 0]

\* get_default_dtype(structured=True): k, i, j, segment, reach are integers,
\* flow, stage, cond, sbot, stop are float32
DefaultDtype == <<"int", "int", "int", "int", "int",
                  "float", "float", "float", "float", "float">>

\* Package.add_to_dtype(dtype, aux_names, np.float32) as get_empty uses it
AuxDtype(naux) == DefaultDtype \o Tuple([n \in 1..naux |-> "float"])

\* a schema that leaves the auxiliary fields out
Dtype_default(aux_names) == DefaultDtype

Dtype(aux_names) == AuxDtype(Len(aux_names))

\* the value -1.0E+10 every cell of a fresh array holds
NoData == [m |-> -1, e |-> 10]

\* ModflowStr.get_empty(ncells, aux_names): ncells rows of -1.0E+10
get_empty(ncells, aux_names) ==
    Tuple([r \in 1..ncells |-> Tuple([c \in 1..Len(Dtype(aux_names)) |-> NoData])])

\* numpy's conversion of one string to a field of the given type
Convert(tok, type) == IF type = "int" THEN ToInt(tok) ELSE ToFloat(tok)

\* current[ibnd] = tuple(t[:len(current.dtype.names)]): the tuple must have
\* one item per field and every item must convert to its field's type
RowFromTokens(t, dtype) ==
    LET tt == SubSeq(t, 1, IF Len(t) < Len(dtype) THEN Len(t) ELSE Len(dtype))
    IN  IF Len(tt) = Len(dtype) /\ \A c \in 1..Len(dtype) : Convert(tt[c], dtype[c]).ok
        THEN [ok |-> TRUE,
              row |-> Tuple([c \in 1..Len(dtype) |-> Convert(tt[c], dtype[c]).v])]
        ELSE [ok |-> FALSE, row |-> <<>>]

\* the column widths of the fixed-column fallback of a record line
ipos == <<5, 5, 5, 5, 5, 15, 10, 10, 10, 10>>

\* the column widths of the fixed-column fallback of a dataset 8 line
ipos8 == <<10, 10, 10>>

\* The except branch of a record line or dataset 8 line.  Its loop over
\* range(len(ipos)) starts with istop = istart + ipos(ivar); ipos is a list,
\* a list is not callable, so the first iteration raises TypeError and the
\* slicing below it never runs.
FixedColumns(line, widths) ==
    IF Len(widths) > 0
    THEN [ok |-> FALSE, err |-> "TypeError", row |-> <<>>]
    ELSE [ok |-> FALSE, err |-> "ValueError", row |-> <<>>]

\* float(t[0]), float(t[1]), float(t[2]) of a dataset 8 line
TripleFromTokens(t) ==
    IF Len(t) >= 3 /\ \A c \in 1..3 : ToFloat(t[c]).ok
    THEN [ok |-> TRUE, row |-> Tuple([c \in 1..3 |-> ToFloat(t[c]).v])]
    ELSE [ok |-> FALSE, row |-> <<>>]

\* a loader that leaves the indices as the file gives them
Unshifted(rows) == rows

\* current['k'] -= 1; current['i'] -= 1; current['j'] -= 1
Minus1(c) == IF c.e = 0 THEN I(c.m - 1) ELSE I(c.m * (10 ^ c.e) - 1)

ZeroBased(rows) ==
    Tuple([r \in 1..Len(rows) |->
            Tuple([c \in 1..Len(rows[r]) |->
                    IF c <= 3 THEN Minus1(rows[r][c]) ELSE rows[r][c]])])

(***************************************************************************)
(* Text of the input files the model reads.                                *)
(***************************************************************************)
RECURSIVE StrNat(_)
\* str(n) for n >= 0
StrNat(n) == IF n < 10 THEN <<Digits[n + 1]>>
             ELSE StrNat(n \div 10) \o <<Digits[(n % 10) + 1]>>

\* str(n) for an integer
Str(n) == IF n < 0 THEN <<"-">> \o StrNat(0 - n) ELSE StrNat(n)

RECURSIVE Spaces(_)
Spaces(n) == IF n <= 0 THEN <<>> ELSE <<" ">> \o Spaces(n - 1)

\* '{0:wd}'.format(...): right-justified in w columns, never truncated
RJust(s, w) == Spaces(w - Len(s)) \o s

RECURSIVE Join(_)
\* ' '.join(tokens)
Join(toks) == IF toks = <<>> THEN <<>>
              ELSE IF Len(toks) = 1 THEN toks[1]
              ELSE toks[1] \o <<" ">> \o Join(Tail(toks))

RECURSIVE Glue(_, _)
\* the tokens right-justified in the columns of the given widths
Glue(toks, widths) ==
    IF toks = <<>> THEN <<>>
    ELSE RJust(toks[1], widths[1]) \o Glue(Tail(toks), Tail(widths))

NL ==
    <<"\n">>

\* the record of the spec's example, blank-separated
FreeA ==
    <<"1", " ", "2", " ", "3", " ", "4", " ", "5", " ", "1", "0", ".", "0",
      " ", "1", ".", "0", " ", "5", ".", "0", " ", "0", ".", "0", " ", "2",
      ".", "0", "\n">>

\* the same record in columns of widths 5,5,5,5,5,15,10,10,10,10
FixedA ==
    <<" ", " ", " ", " ", "1", " ", " ", " ", " ", "2", " ", " ", " ", " ",
      "3", " ", " ", " ", " ", "4", " ", " ", " ", " ", "5", " ", " ", " ",
      " ", " ", " ", " ", " ", " ", " ", " ", "1", "0", ".", "0", " ", " ",
      " ", " ", " ", " ", " ", "1", ".", "0", " ", " ", " ", " ", " ", " ",
      " ", "5", ".", "0", " ", " ", " ", " ", " ", " ", " ", "0", ".", "0",
      " ", " ", " ", " ", " ", " ", " ", "2", ".", "0", "\n">>

\* a record whose k and i are five digits long, blank-separated
FreeB ==
    <<"1", "0", "0", "0", "0", " ", "2", "0", "0", "0", "0", " ", "3", " ",
      "1", " ", "2", " ", "2", ".", "5", " ", "1", ".", "0", " ", "5", ".",
      "0", " ", "0", ".", "0", " ", "2", ".", "0", "\n">>

\* the same record in columns: k and i touch, so split() finds 9 tokens
FixedB ==
    <<"1", "0", "0", "0", "0", "2", "0", "0", "0", "0", " ", " ", " ", " ",
      "3", " ", " ", " ", " ", "1", " ", " ", " ", " ", "2", " ", " ", " ",
      " ", " ", " ", " ", " ", " ", " ", " ", " ", "2", ".", "5", " ", " ",
      " ", " ", " ", " ", " ", "1", ".", "0", " ", " ", " ", " ", " ", " ",
      " ", "5", ".", "0", " ", " ", " ", " ", " ", " ", " ", "0", ".", "0",
      " ", " ", " ", " ", " ", " ", " ", "2", ".", "0", "\n">>

\* the first record followed by one auxiliary value
FreeAux ==
    <<"1", " ", "2", " ", "3", " ", "4", " ", "5", " ", "1", "0", ".", "0",
      " ", "1", ".", "0", " ", "5", ".", "0", " ", "0", ".", "0", " ", "2",
      ".", "0", " ", "7", ".", "0", "\n">>

\* one dataset 8 line
TripleLine ==
    <<"1", ".", "0", " ", "2", ".", "0", " ", "3", ".", "0", "\n">>

CommentLine ==
    <<"#", "s", "t", "r", "\n">>

wOpenClose ==
    <<"O", "P", "E", "N", "/", "C", "L", "O", "S", "E">>

\* dataset 1: PARAMETER npstr mxl
ParameterLine ==
    <<"P", "A", "R", "A", "M", "E", "T", "E", "R", " ", "2", " ", "2",
      "\n">>

\* dataset 2: mxacts nss ntrib ndiv icalc const istcb1 istcb2 [aux name]
Ds2Line ==
    <<"2", " ", "1", " ", "0", " ", "0", " ", "0", " ", "1", ".", "0", " ",
      "0", " ", "0", "\n">>

Ds2Icalc ==
    <<"2", " ", "1", " ", "0", " ", "0", " ", "1", " ", "1", ".", "0", " ",
      "0", " ", "0", "\n">>

Ds2Aux ==
    <<"1", " ", "1", " ", "0", " ", "0", " ", "0", " ", "1", ".", "0", " ",
      "0", " ", "0", " ", "A", "U", "X", " ", "X", "\n">>

\* the first line of a period: itmp
ItmpMinus1 ==
    <<"-", "1", "\n">>

Itmp0 ==
    <<"0", "\n">>

Itmp1 ==
    <<"1", "\n">>

Itmp2 ==
    <<"2", "\n">>

\* parameter usage lines: a name, a name with an instance, an unknown name
UsageP1 ==
    <<"P", "1", "\n">>

UsageP2 ==
    <<"p", "2", " ", "N", "2", "\n">>

UsageUnknown ==
    <<"P", "9", "\n">>

OpenCloseLine ==
    <<"O", "P", "E", "N", "/", "C", "L", "O", "S", "E", " ", "r", ".", "d",
      "a", "t", "\n">>

BlankLine == NL

EndOfFile == <<>>

\* every line the model's input files are made of
LineSeq ==
    <<CommentLine, BlankLine, ParameterLine, Ds2Line, Ds2Icalc, Ds2Aux,
      ItmpMinus1, Itmp0, Itmp1, Itmp2,
      FreeA, FixedA, FreeB, FixedB, FreeAux, TripleLine,
      UsageP1, UsageP2, UsageUnknown, OpenCloseLine>>

LineSet == {LineSeq[n] : n \in 1..Len(LineSeq)}

\* line.strip().split() of the lines of LineSeq, computed once
Tokens == [l \in LineSet \cup {EndOfFile} |-> SplitText(l)]

\* line.strip().split()
split(l) == IF l \in DOMAIN Tokens THEN Tokens[l] ELSE SplitText(l)

\* "open/close" in line.lower()
IsOpenClose(l) ==
    Contains(lower(l), <<"o", "p", "e", "n", "/", "c", "l", "o", "s", "e">>)

\* current[ibnd] = ... of one record line, lines 362-377: the free-format
\* try first, then the except branch
ParseRecordLine(line, aux_names) ==
    LET free == RowFromTokens(split(line), Dtype(aux_names))
    IN  IF free.ok
        THEN [ok |-> TRUE, err |-> "", row |-> free.row]
        ELSE FixedColumns(line, ipos)

\* one dataset 8 line, lines 389-402
ParseTripleLine(line) ==
    LET free == TripleFromTokens(split(line))
    IN  IF free.ok
        THEN [ok |-> TRUE, err |-> "", row |-> free.row]
        ELSE FixedColumns(line, ipos8)

(***************************************************************************)
(* Collaborators of load: the parameter catalog that mfparbc.load builds   *)
(* and the file an OPEN/CLOSE line names.                                  *)
(***************************************************************************)
MaxItmp == 2

AuxCells(aux_names) == Tuple([n \in 1..Len(aux_names) |-> [m |-> 7, e |-> 0]])

\* the records of FreeA and FreeB, indices one-based as a file gives them
RecA == RowFromTokens(SplitText(FreeA), DefaultDtype).row

RecB == RowFromTokens(SplitText(FreeB), DefaultDtype).row

RowA(aux_names) == RecA \o AuxCells(aux_names)

RowB(aux_names) == RecB \o AuxCells(aux_names)

\* pak_parms.bc_parms: name -> (par_dict, instances); every instance lists
\* nlst records with the indices as the file gives them (one-based)
Catalog(aux_names) ==
    (<<"p", "1">> :> [nlst |-> 2, parval |-> 1,
                      inst |-> (<<"s", "t", "a", "t", "i", "c">> :>
                                    <<RowA(aux_names), RowB(aux_names)>>)])
    @@
    (<<"p", "2">> :> [nlst |-> 1, parval |-> 1,
                      inst |-> (<<"s", "t", "a", "t", "i", "c">> :> <<RowB(aux_names)>>)
                               @@ (<<"n", "2">> :> <<RowA(aux_names)>>)])

NoCatalog == << >>

static == <<"s", "t", "a", "t", "i", "c">>

\* what np.genfromtxt can find in the file an OPEN/CLOSE line names
ExtFiles(aux_names) ==
    {[state |-> "missing", rows |-> <<>>],
     [state |-> "malformed", rows |-> <<>>],
     [state |-> "ok", rows |-> <<>>],
     [state |-> "ok", rows |-> <<RowA(aux_names)>>],
     [state |-> "ok", rows |-> <<RowB(aux_names), RowA(aux_names)>>],
     [state |-> "ok", rows |-> <<RowA(aux_names), RowB(aux_names), RowA(aux_names)>>]}

(***************************************************************************)
(* write_file, lines 158-171, and the package it serialises.               *)
(***************************************************************************)
\* self.heading, line 107
Heading ==
    <<"#", " ", "S", "T", "R", " ", "f", "o", "r", " ", "M", "O", "D", "F",
      "L", "O", "W", ",", " ", "g", "e", "n", "e", "r", "a", "t", "e", "d",
      " ", "b", "y", " ", "F", "l", "o", "p", "y", ".">>

\* the value load gives ipakcb when a cell-by-cell unit is set, lines 255, 261
IpakcbSet == 53

NoPackage == [heading |-> <<>>, ipakcb |-> 0, options |-> <<>>,
              stress_period_data |-> <<>>]

\* the records of the package's periods, indices zero-based
Rec0(row) == ZeroBased(<<row>>)[1]

PeriodData(names) ==
    {<<>>, <<Rec0(RowA(names))>>, <<Rec0(RowA(names)), Rec0(RowB(names))>>}

\* the packages the model writes: one or two periods, none carried forward
Packages ==
    {[heading |-> Heading, ipakcb |-> c, options |-> <<>>,
      stress_period_data |-> spd] :
        c \in {0, IpakcbSet},
        spd \in {<<a>> : a \in PeriodData(<<>>)}
                \cup {<<a, b>> : a \in PeriodData(<<>>), b \in PeriodData(<<>>)}}
    \cup
    {[heading |-> Heading, ipakcb |-> 0,
      options |-> << <<"a", "u", "x", " ", "x">> >>,
      stress_period_data |-> <<a>>] : a \in PeriodData(<<"x">>)}

RECURSIVE MaxCount(_)
\* mflist.mxact: the largest record count of the periods
MaxCount(spd) ==
    IF spd = <<>> THEN 0
    ELSE LET rest == MaxCount(Tail(spd))
         IN  IF Len(Head(spd)) > rest THEN Len(Head(spd)) ELSE rest

\* ncells, lines 153-156
ncells(pkg) == MaxCount(pkg.stress_period_data)

RECURSIVE Pad0(_, _)
\* s with zeros in front up to w characters
Pad0(s, w) == IF Len(s) >= w THEN s ELSE Pad0(<<"0">> \o s, w)

\* a decimal [m, e] as digits, a point, digits
FmtFloat(c) ==
    IF c.e >= 0
    THEN Str(c.m * (10 ^ c.e)) \o <<".", "0">>
    ELSE LET k == 0 - c.e
             a == IF c.m < 0 THEN 0 - c.m ELSE c.m
         IN  (IF c.m < 0 THEN <<"-">> ELSE <<>>)
             \o StrNat(a \div (10 ^ k)) \o <<".">> \o Pad0(StrNat(a % (10 ^ k)), k)

\* one record line: the indices one-based again, the fields in the columns
\* of the fallback parser, auxiliary fields in columns of 10
RecordLine(row) ==
    Glue(Tuple([c \in 1..Len(row) |->
                    IF c <= 3 THEN Str(row[c].m + 1)
                    ELSE IF c <= 5 THEN Str(row[c].m)
                    ELSE FmtFloat(row[c])]),
         ipos \o Tuple([c \in 1..(Len(row) - Len(ipos)) |-> 10])) \o NL

RECURSIVE RecordLines(_)
RecordLines(rows) ==
    IF rows = <<>> THEN <<>>
    ELSE <<RecordLine(Head(rows))>> \o RecordLines(Tail(rows))

RECURSIVE write_transient(_)
\* mflist.write_transient: per period the record count, then the records
write_transient(spd) ==
    IF spd = <<>> THEN <<>>
    ELSE <<RJust(Str(Len(Head(spd))), 10) \o NL>>
         \o RecordLines(Head(spd)) \o write_transient(Tail(spd))

RECURSIVE OptionText(_)
\* for opt in self.options: line += ' ' + str(opt)
OptionText(opts) ==
    IF opts = <<>> THEN <<>>
    ELSE <<" ">> \o Head(opts) \o OptionText(Tail(opts))

\* lines 165-168: '{0:10d}{1:10d}'.format(mxact, ipakcb) + options
GlobalControlLine(pkg) ==
    RJust(Str(ncells(pkg)), 10) \o RJust(Str(pkg.ipakcb), 10)
    \o OptionText(pkg.options) \o NL

\* the lines write_file writes, in order
write_file(pkg) ==
    <<pkg.heading \o NL, GlobalControlLine(pkg)>>
    \o write_transient(pkg.stress_period_data)

(***************************************************************************)
(* State of one call of ModflowStr.load.                                   *)
(***************************************************************************)
VARIABLES
    module_globals,     \* names bound in the module namespace besides its own
    nper,               \* number of stress periods
    D,                  \* the package write_file serialises, NoPackage if none
    f,                  \* the argument f of load: [arg, given, rest]
    opened,             \* the handles the calls opened themselves
    nread,              \* lines consumed so far
    pc,                 \* position of the call
    err,                \* the exception that ended the call, "" if none
    line,               \* the local variable line of the header steps
    npstr, mxacts, icalc, aux_names, options, pak_parms,
    iper, itmp, ibnd,
    heap,               \* the arrays allocated so far
    current,            \* [kind, id]: unbound, or a reference into heap
    bnd_output,         \* [kind, id]: unbound, None, or a reference into heap
    tds8,
    stress_period_data, \* iper -> entry
    ds8,                \* iper -> triples
    ret,                \* what load returned
    log                 \* per period: what the input gave for it

env == <<module_globals, nper>>
hdr == <<npstr, mxacts, icalc, aux_names, options, pak_parms>>
loop == <<iper, itmp, ibnd>>
mem == <<heap, current, bnd_output, tds8>>
out == <<stress_period_data, ds8, ret>>
vars == <<env, D, f, opened, nread, pc, err, line, hdr, loop, mem, out, log>>

Unbound == [kind |-> "unbound", id |-> 0]

None == [kind |-> "None", id |-> 0]

Ref(n) == [kind |-> "ref", id |-> n]

\* the names load uses that the module never imports
Unimported == {"os", "mfparbc"}

\* load is called on an input of its own, or on the file write_file wrote
Init ==
    /\ module_globals \in SUBSET Unimported
    /\ \/ /\ D = NoPackage
          /\ nper \in 0..MaxNper
          /\ f \in {[arg |-> a, given |-> FALSE, rest |-> <<>>] :
                        a \in {"name", "file"}}
          /\ pc = "open"
       \/ /\ D \in Packages
          /\ nper = Len(D.stress_period_data)
          /\ f = [arg |-> "name", given |-> FALSE, rest |-> <<>>]
          /\ pc = "write"
    /\ opened = [load |-> "none", write_file |-> "none"]
    /\ nread = 0
    /\ err = ""
    /\ line = <<>>
    /\ npstr = 0 /\ mxacts = 0 /\ icalc = 0
    /\ aux_names = <<>> /\ options = <<>> /\ pak_parms = NoCatalog
    /\ iper = 0 /\ itmp = 0 /\ ibnd = 0
    /\ heap = <<>>
    /\ current = Unbound
    /\ bnd_output = Unbound
    /\ tds8 = <<>>
    /\ stress_period_data = <<>>
    /\ ds8 = <<>>
    /\ ret = "pending"
    /\ log = <<>>

\* what f.readline() can return: the next line of a file whose content is
\* known, any line or the end of input otherwise
readline ==
    IF f.given
    THEN {IF f.rest = <<>> THEN EndOfFile ELSE Head(f.rest)}
    ELSE {EndOfFile} \cup (IF nread < MaxLines THEN LineSet ELSE {})

\* the effect of f.readline() returning l
Read(l) ==
    /\ f' = IF f.given /\ f.rest # <<>> THEN [f EXCEPT !.rest = Tail(@)] ELSE f
    /\ nread' = IF l = EndOfFile THEN nread ELSE nread + 1

\* an exception leaves load
Raise(e) == pc' = "error" /\ err' = e

\* lines 158-171: write_file opens fn_path, writes and closes; load then
\* reads that file by its name
WriteFile ==
    /\ pc = "write"
    /\ f' = [f EXCEPT !.given = TRUE, !.rest = write_file(D)]
    /\ opened' = [opened EXCEPT !.write_file = "closed"]
    /\ pc' = "open"
    /\ UNCHANGED <<env, D, nread, err, line, hdr, loop, mem, out, log>>

\* lines 218-220: load opens the file itself when f is a file name
Open ==
    /\ pc = "open"
    /\ opened' = IF f.arg = "name" THEN [opened EXCEPT !.load = "open"]
                  ELSE opened
    /\ pc' = "header"
    /\ UNCHANGED <<env, D, f, nread, err, line, hdr, loop, mem, out, log>>

\* lines 222-226: skip the heading
Header ==
    /\ pc = "header"
    /\ \E l \in readline :
        /\ Read(l)
        /\ IF l = EndOfFile
           THEN Raise("IndexError") /\ UNCHANGED line
           ELSE IF l[1] # "#"
           THEN pc' = "dataset1" /\ line' = l /\ UNCHANGED err
           ELSE nread < MaxComments /\ line' = l /\ UNCHANGED <<pc, err>>
    /\ UNCHANGED <<env, D, opened, hdr, loop, mem, out, log>>

\* The statements x = int(t[0]); y = int(t[1]); ... run in order: the first
\* token that is missing (IndexError) or does not convert (ValueError) ends
\* them.  FirstBad is its position, 0 when every statement succeeds.
FirstBad(t, types) ==
    LET bad == {c \in 1..Len(types) :
                    \/ c > Len(t)
                    \/ (types[c] # "str" /\ ~Convert(t[c], types[c]).ok)}
    IN  IF bad = {} THEN 0 ELSE CHOOSE c \in bad : \A d \in bad : c <= d

\* the conversions of lines 244-251
Ds2Types == <<"int", "int", "int", "int", "int", "float", "int", "int">>

\* lines 228-238: the optional PARAMETER line
Dataset1 ==
    /\ pc = "dataset1"
    /\ LET t == split(line) IN
        IF t = <<>>
        THEN Raise("IndexError") /\ UNCHANGED <<f, nread, line, npstr>>
        ELSE IF lower(t[1]) # <<"p", "a", "r", "a", "m", "e", "t", "e", "r">>
        THEN pc' = "dataset2" /\ UNCHANGED <<f, nread, line, npstr, err>>
        ELSE IF FirstBad(t, <<"str", "int", "int">>) # 0
        THEN /\ Raise(IF FirstBad(t, <<"str", "int", "int">>) > Len(t)
                      THEN "IndexError" ELSE "ValueError")
             /\ UNCHANGED <<f, nread, line, npstr>>
        ELSE \E l \in readline :
                /\ Read(l)
                /\ line' = l
                /\ npstr' = ToInt(t[2]).v.m
                /\ pc' = "dataset2"
                /\ UNCHANGED err
    /\ UNCHANGED <<env, D, opened, mxacts, icalc, aux_names, options, pak_parms, loop, mem,
                   out, log>>

RECURSIVE AuxScan(_, _, _, _)
\* lines 266-276: the scan of the tokens after the eighth; it is a 1-based
\* index of the token the loop variable it points at
AuxScan(t, it, opts, names) ==
    IF it > Len(t)
    THEN [ok |-> TRUE, options |-> opts, aux_names |-> names]
    ELSE IF Contains(lower(t[it]), <<"a", "u", "x">>)
         THEN IF it + 1 > Len(t)
              THEN [ok |-> FALSE, options |-> opts, aux_names |-> names]
              ELSE AuxScan(t, it + 2, Append(opts, Join(<<t[it], t[it + 1]>>)),
                           Append(names, lower(t[it + 1])))
         ELSE AuxScan(t, it + 1, opts, names)

\* a period loop that does not count its iterations
loop_on(n) == "period"

\* the loop 'for iper in range(nper)' starts an iteration or ends
LoopPc(n) == IF n < nper THEN "period" ELSE "return"

\* lines 240-289: dataset 2, the options, the parameter data
Dataset2 ==
    /\ pc = "dataset2"
    /\ \E t \in {split(line)} :
       \E bad \in {FirstBad(t, Ds2Types)} :
       \E scan \in {IF bad = 0 THEN AuxScan(t, 9, <<>>, <<>>)
                     ELSE [ok |-> FALSE, options |-> <<>>, aux_names |-> <<>>]} :
        IF bad # 0
        THEN /\ Raise(IF bad > Len(t) THEN "IndexError" ELSE "ValueError")
             /\ UNCHANGED <<hdr, iper>>
        ELSE IF ~scan.ok
        THEN Raise("IndexError") /\ UNCHANGED <<hdr, iper>>
        ELSE IF npstr > 0 /\ "mfparbc" \notin module_globals
        THEN Raise("NameError") /\ UNCHANGED <<hdr, iper>>
        ELSE /\ mxacts' = ToInt(t[1]).v.m
             /\ icalc' = ToInt(t[5]).v.m
             /\ options' = scan.options
             /\ aux_names' = scan.aux_names
             /\ pak_parms' = IF npstr > 0 THEN Catalog(scan.aux_names) ELSE NoCatalog
             /\ iper' = 0
             /\ pc' = LoopPc(0)
             /\ UNCHANGED <<npstr, err>>
    /\ UNCHANGED <<env, D, opened, f, nread, line, itmp, ibnd, mem, out, log>>

(***************************************************************************)
(* The period loop, lines 290-413.                                         *)
(***************************************************************************)
\* np.recarray.copy(a): a new array with the rows of a
recarray_copy(rows) == rows

\* a copy that hands back the array it was given
alias_id(a, fresh) == a.id

\* the object np.recarray.copy(a) returns: the fresh array, never a itself
copy_id(a, fresh) == fresh

\* a carry-forward that shifts the indices of the copy once more
carry_forward_shifted(cur, h) ==
    IF cur.kind = "unbound"
    THEN [ok |-> FALSE, err |-> "UnboundLocalError", rows |-> <<>>]
    ELSE [ok |-> TRUE, err |-> "", rows |-> ZeroBased(h[cur.id])]

\* a carry-forward that takes a missing predecessor for an empty one
carry_forward_lenient(cur, h) ==
    IF cur.kind = "unbound"
    THEN [ok |-> TRUE, err |-> "", rows |-> <<>>]
    ELSE [ok |-> TRUE, err |-> "", rows |-> h[cur.id]]

\* lines 405-406: bnd_output = np.recarray.copy(current) of a period with
\* itmp < 0; current is a local assigned only inside the loop
carry_forward(cur, h) ==
    IF cur.kind = "unbound"
    THEN [ok |-> FALSE, err |-> "UnboundLocalError", rows |-> <<>>]
    ELSE [ok |-> TRUE, err |-> "", rows |-> recarray_copy(h[cur.id])]

\* an empty period that keeps the bnd_output of the period before it
stale_bnd_output(old) == IF old.kind = "ref" THEN old ELSE None

\* line 305: bnd_output of a period with itmp == 0
empty_bnd_output(old) == None

\* lines 410-413: the entry stored for a period
period_entry(bo, n) ==
    IF bo.kind = "None"
    THEN [kind |-> "int", val |-> n, id |-> 0]
    ELSE [kind |-> "recarray", val |-> 0, id |-> bo.id]

\* stress_period_data[iper] = entry; the dictionary is kept as the sequence
\* of its values, the entry of period p at index p + 1
Stored(entry) ==
    IF iper < Len(stress_period_data)
    THEN [stress_period_data EXCEPT ![iper + 1] = entry]
    ELSE Append(stress_period_data, entry)

\* the record the log opens for a period when its control line is parsed
LogEntry(n) == [itmp |-> n, first |-> nread, lines |-> 1, origin |-> <<>>,
                nlst |-> <<>>, triples |-> <<>>, oc |-> <<>>]

\* the log with the last entry changed
Logged(entry) == [log EXCEPT ![Len(log)] = entry]

Last(sq) == sq[Len(sq)]

\* the file records the previous period's array was read from
PrevOrigin == IF log = <<>> THEN <<>> ELSE Last(log).origin

\* np.zeros((itmp, 3))
zeros3(n) == Tuple([r \in 1..n |-> <<I(0), I(0), I(0)>>])

\* lines 290-306 and 405-413: the control line of a period, and the whole
\* period when itmp <= 0
Period ==
    /\ pc = "period"
    /\ \E l \in readline :
        /\ Read(l)
        /\ line' = l
        /\ LET t == split(l)
               n == ToInt(t[1]).v.m
               cf == carry_forward(current, heap)
           IN
            IF l = EndOfFile
            THEN pc' = "return" /\ UNCHANGED <<loop, mem, out, log, err>>
            ELSE IF t = <<>>
            THEN Raise("IndexError") /\ UNCHANGED <<loop, mem, out, log>>
            ELSE IF \E c \in 1..Len(t) : c <= 3 /\ ~ToInt(t[c]).ok
            THEN Raise("ValueError") /\ UNCHANGED <<loop, mem, out, log>>
            ELSE IF n = 0
            THEN /\ itmp' = n
                 /\ bnd_output' = empty_bnd_output(bnd_output)
                 /\ heap' = Append(heap, get_empty(n, aux_names))
                 /\ current' = Ref(Len(heap) + 1)
                 /\ stress_period_data' = Stored(period_entry(bnd_output', n))
                 /\ log' = Append(log, LogEntry(n))
                 /\ iper' = iper + 1
                 /\ pc' = LoopPc(iper + 1)
                 /\ UNCHANGED <<ibnd, tds8, ds8, ret, err>>
            ELSE IF n < 0
            THEN IF ~cf.ok
                 THEN Raise(cf.err) /\ UNCHANGED <<loop, mem, out, log>>
                 ELSE /\ itmp' = n
                      /\ heap' = Append(heap, cf.rows)
                      /\ bnd_output' = Ref(copy_id(current, Len(heap) + 1))
                      /\ stress_period_data' = Stored(period_entry(bnd_output', n))
                      /\ log' = Append(log, [LogEntry(n) EXCEPT
                                                !.origin = PrevOrigin])
                      /\ iper' = iper + 1
                      /\ pc' = LoopPc(iper + 1)
                      /\ UNCHANGED <<ibnd, current, tds8, ds8, ret, err>>
            ELSE /\ n <= MaxItmp
                 /\ itmp' = n
                 /\ ibnd' = 0
                 /\ log' = Append(log, LogEntry(n))
                 /\ IF npstr > 0
                    THEN pc' = "usage" /\ UNCHANGED <<heap, current>>
                    ELSE /\ pc' = "record"
                         /\ heap' = Append(heap, get_empty(n, aux_names))
                         /\ current' = Ref(Len(heap) + 1)
                 /\ UNCHANGED <<iper, bnd_output, tds8, out, err>>
    /\ UNCHANGED <<env, D, opened, hdr>>

\* a loader that reads dataset 8 whatever icalc is
always_dataset8(ic) == TRUE

\* line 386: if icalc > 0
reads_dataset8(ic) == ic > 0

\* lines 379-383 and 386-387, then 410-413 when there is no dataset 8 to
\* read: the indices of current become zero-based in place, bnd_output is a
\* copy of current
FinishRecords(h, cur, lg) ==
    LET h2 == [h EXCEPT ![cur.id] = ZeroBased(@)]
        h3 == Append(h2, recarray_copy(h2[cur.id]))
        bo == Ref(copy_id(cur, Len(h3)))
    IN  /\ heap' = h3
        /\ current' = cur
        /\ bnd_output' = bo
        /\ log' = lg
        /\ ibnd' = 0
        /\ IF reads_dataset8(icalc)
           THEN /\ tds8' = zeros3(itmp)
                /\ pc' = "ds8"
                /\ UNCHANGED <<iper, stress_period_data>>
           ELSE /\ stress_period_data' = Stored(period_entry(bo, itmp))
                /\ iper' = iper + 1
                /\ pc' = LoopPc(iper + 1)
                /\ UNCHANGED tds8
        /\ UNCHANGED <<itmp, ds8, ret, err>>

\* a lookup that takes the parameter name as the line spells it
expand_usage_exact(t, catalog, names) ==
    IF t = <<>>
    THEN [ok |-> FALSE, err |-> "IndexError", rows |-> <<>>, data |-> <<>>]
    ELSE IF t[1] \notin DOMAIN catalog
    THEN [ok |-> FALSE, err |-> "LookupError", rows |-> <<>>, data |-> <<>>]
    ELSE [ok |-> TRUE, err |-> "", data |-> catalog[t[1]].inst[static],
          rows |-> catalog[t[1]].inst[static]]

\* lines 311-341: one parameter usage line, resolved against the catalog
expand_usage(t, catalog, names) ==
    LET pname == lower(t[1])
        iname == IF /\ Len(t) >= 2
                    /\ pname \in DOMAIN catalog
                    /\ lower(t[2]) \in DOMAIN catalog[pname].inst
                 THEN lower(t[2])
                 ELSE static
        par == catalog[pname]
        data == par.inst[iname]
    IN  IF t = <<>>
        THEN [ok |-> FALSE, err |-> "IndexError", rows |-> <<>>, data |-> <<>>]
        ELSE IF pname \notin DOMAIN catalog
        THEN [ok |-> FALSE, err |-> "LookupError", rows |-> <<>>, data |-> <<>>]
        ELSE IF iname \notin DOMAIN par.inst
        THEN [ok |-> FALSE, err |-> "KeyError", rows |-> <<>>, data |-> <<>>]
        ELSE IF Len(data) > par.nlst
        THEN [ok |-> FALSE, err |-> "IndexError", rows |-> <<>>, data |-> <<>>]
        ELSE [ok |-> TRUE, err |-> "", data |-> data,
              rows |-> Tuple([r \in 1..par.nlst |->
                                IF r <= Len(data) THEN data[r]
                                ELSE get_empty(1, names)[1]])]

\* lines 308-341: the loop over the itmp parameter usages of a period
Usage ==
    /\ pc = "usage"
    /\ \E l \in readline :
        /\ Read(l)
        /\ line' = l
        /\ LET u == expand_usage(split(l), pak_parms, aux_names)
               h == Append(heap, u.rows)
               lg == Logged([Last(log) EXCEPT !.lines = @ + 1,
                                              !.origin = u.data,
                                              !.nlst = Append(@, Len(u.rows))])
           IN
            IF ~u.ok
            THEN Raise(u.err) /\ UNCHANGED <<loop, mem, out, log>>
            ELSE IF ibnd + 1 < itmp
            THEN /\ heap' = h
                 /\ current' = Ref(Len(h))
                 /\ ibnd' = ibnd + 1
                 /\ log' = lg
                 /\ UNCHANGED <<pc, err, iper, itmp, bnd_output, tds8, out>>
            ELSE FinishRecords(h, Ref(Len(h)), lg)
    /\ UNCHANGED <<env, D, opened, hdr>>

\* lines 347-361: a record line that names an external file.  genfromtxt
\* gives a 0-d array for a file of one row, and shape[0] of it is an error.
open_close(l, ext, n, globals) ==
    IF "os" \notin globals
    THEN [ok |-> FALSE, err |-> "NameError", rows |-> <<>>]
    ELSE IF Len(split(l)) < 2
    THEN [ok |-> FALSE, err |-> "IndexError", rows |-> <<>>]
    ELSE IF ext.state = "missing"
    THEN [ok |-> FALSE, err |-> "AssertionError", rows |-> <<>>]
    ELSE IF ext.state = "malformed"
    THEN [ok |-> FALSE, err |-> "Exception", rows |-> <<>>]
    ELSE IF Len(ext.rows) = 1
    THEN [ok |-> FALSE, err |-> "IndexError", rows |-> <<>>]
    ELSE IF Len(ext.rows) # n
    THEN [ok |-> FALSE, err |-> "AssertionError", rows |-> <<>>]
    ELSE [ok |-> TRUE, err |-> "", rows |-> ext.rows]

\* lines 344-377: the loop over the itmp record lines of a period
Record ==
    /\ pc = "record"
    /\ \E l \in readline :
        /\ Read(l)
        /\ line' = l
        /\ IF IsOpenClose(l)
           THEN \E ext \in ExtFiles(aux_names) :
                LET oc == open_close(l, ext, itmp, module_globals)
                    h == Append(heap, oc.rows)
                    lg == Logged([Last(log) EXCEPT
                                    !.lines = @ + 1,
                                    !.origin = ext.rows,
                                    !.oc = <<[state |-> ext.state,
                                              rows |-> ext.rows,
                                              at |-> ibnd + 1]>>])
                IN  IF ~oc.ok
                    THEN /\ Raise(oc.err)
                         /\ log' = lg
                         /\ UNCHANGED <<loop, mem, out>>
                    ELSE FinishRecords(h, Ref(Len(h)), lg)
           ELSE LET r == ParseRecordLine(l, aux_names)
                    h == [heap EXCEPT ![current.id][ibnd + 1] = r.row]
                    lg == Logged([Last(log) EXCEPT
                                    !.lines = @ + 1,
                                    !.origin = Append(@, r.row)])
                IN  IF ~r.ok
                    THEN Raise(r.err) /\ UNCHANGED <<loop, mem, out, log>>
                    ELSE IF ibnd + 1 < itmp
                    THEN /\ heap' = h
                         /\ ibnd' = ibnd + 1
                         /\ log' = lg
                         /\ UNCHANGED <<pc, err, iper, itmp, current, bnd_output,
                                        tds8, out>>
                    ELSE FinishRecords(h, current, lg)
    /\ UNCHANGED <<env, D, opened, hdr>>

\* lines 386-402 and 410-413: the loop over the itmp lines of dataset 8
Dataset8 ==
    /\ pc = "ds8"
    /\ \E l \in readline :
        /\ Read(l)
        /\ line' = l
        /\ LET r == ParseTripleLine(l) IN
            IF ~r.ok
            THEN Raise(r.err) /\ UNCHANGED <<loop, mem, out, log>>
            ELSE /\ tds8' = [tds8 EXCEPT ![ibnd + 1] = r.row]
                 /\ log' = Logged([Last(log) EXCEPT !.lines = @ + 1,
                                                    !.triples = Append(@, r.row)])
                 /\ IF ibnd + 1 < itmp
                    THEN /\ ibnd' = ibnd + 1
                         /\ UNCHANGED <<pc, iper, stress_period_data>>
                    ELSE /\ ibnd' = 0
                         /\ stress_period_data' = Stored(period_entry(bnd_output, itmp))
                         /\ iper' = iper + 1
                         /\ pc' = LoopPc(iper + 1)
                 /\ UNCHANGED <<itmp, heap, current, bnd_output, ds8, ret, err>>
    /\ UNCHANGED <<env, D, opened, hdr>>

\* lines 416-417: str8 = None; return str8
Return ==
    /\ pc = "return"
    /\ ret' = "None"
    /\ pc' = "done"
    /\ UNCHANGED <<env, D, opened, f, nread, err, line, hdr, loop, mem,
                   stress_period_data, ds8, log>>

Next == WriteFile \/ Open \/ Header \/ Dataset1 \/ Dataset2 \/ Period \/ Usage \/ Record \/ Dataset8
        \/ Return

Spec == Init /\ [][Next]_vars

\* a call that can take a step takes it: load is one sequential thread
FairSpec == Spec /\ WF_vars(Next)

(***************************************************************************)
(* Properties of load and write_file.                                      *)
(***************************************************************************)
\* the records of the entry stored at index i (period i - 1); an entry that
\* is the integer itmp holds no records
EntryRows(i) ==
    IF stress_period_data[i].kind = "recarray"
    THEN heap[stress_period_data[i].id]
    ELSE <<>>

\* the triples load attached to the period at index i
Supplement(i) == IF i \in DOMAIN ds8 THEN ds8[i] ELSE <<>>

\* the periods load has stored an entry for, as indices
StoredPeriods == 1..Len(stress_period_data)

\* C1: the entry stored for a period whose control line has itmp < 0 holds
\* the same records, in the same order, as the entry of the period before
\* it, with the same triples attached, and is a record list whenever the
\* period before holds a record.
C1_CarryForward ==
    \A i \in StoredPeriods :
        (i >= 2 /\ log[i].itmp < 0) =>
            /\ EntryRows(i) = EntryRows(i - 1)
            /\ Supplement(i) = Supplement(i - 1)
            /\ (EntryRows(i - 1) # <<>> => stress_period_data[i].kind = "recarray")

\* two carry-forward periods in a row after a period with records
C1_Witness ==
    /\ Len(stress_period_data) >= 3
    /\ log[2].itmp < 0 /\ log[3].itmp < 0
    /\ Len(EntryRows(3)) >= 1

RECURSIVE Sum(_)
Sum(ns) == IF ns = <<>> THEN 0 ELSE Head(ns) + Sum(Tail(ns))

\* C2: the entry stored for a period of parameter usages holds as many
\* records as the nlst of its usages add up to.
C2_Concatenation ==
    \A i \in StoredPeriods :
        log[i].nlst # <<>> => Len(EntryRows(i)) = Sum(log[i].nlst)

\* C3: in every stored entry the indices k, i, j of every record are the
\* values of the record the file gave, minus one.
C3_ZeroBased ==
    \A i \in StoredPeriods :
        /\ Len(EntryRows(i)) = Len(log[i].origin)
        /\ \A r \in 1..Len(EntryRows(i)) : \A c \in 1..3 :
                EntryRows(i)[r][c] = I(log[i].origin[r][c].m - 1)

\* a period read from an external file, then carried forward
C3_Witness ==
    /\ Len(stress_period_data) >= 2
    /\ log[1].oc # <<>>
    /\ log[2].itmp < 0
    /\ Len(EntryRows(2)) >= 2

\* C4: load never stores an entry for period 0 from a control line with
\* itmp < 0: it ends with an error and an empty dictionary.
C4_NoPredecessor ==
    /\ (log # <<>> => log[1].itmp >= 0)
    /\ (err = "UnboundLocalError" =>
            pc = "error" /\ iper = 0 /\ stress_period_data = <<>>)

\* load failed on the control line of period 0
C4_Witness ==
    /\ pc = "error" /\ err = "UnboundLocalError"
    /\ iper = 0 /\ nper >= 1 /\ stress_period_data = <<>>

\* C5: a call of load that returns gives a dataset, never None, and the
\* dictionary it filled has an entry for each of the nper periods.
C5_CompleteResult ==
    pc = "done" => (ret # "None" /\ Len(stress_period_data) = nper)

\* the file an OPEN/CLOSE line of period i named has as many rows as itmp
RowsMatch(i) ==
    log[i].oc[1].state = "ok" /\ Len(log[i].oc[1].rows) = log[i].itmp

\* C6: a period whose record line is an OPEN/CLOSE reference ends load with
\* an error when the file's row count differs from itmp and is stored with
\* exactly the file's rows when it matches.
C6_ExternalRows ==
    \A i \in 1..Len(log) :
        log[i].oc # <<>> =>
            IF RowsMatch(i)
            THEN icalc = 0 =>
                    /\ i \in StoredPeriods
                    /\ EntryRows(i) = ZeroBased(log[i].oc[1].rows)
            ELSE pc = "error" /\ i \notin StoredPeriods

\* C7: with icalc > 0 a stored period with itmp > 0 has one triple per
\* record attached, the triples its dataset 8 lines gave.
C7_Supplementary ==
    \A i \in StoredPeriods :
        (icalc > 0 /\ log[i].itmp > 0) =>
            /\ Supplement(i) = log[i].triples
            /\ Len(Supplement(i)) = Len(EntryRows(i))

\* C8: a period with itmp = 0 is stored without records, takes no line but
\* its control line, and is written as the control line 0 alone.
C8_EmptyPeriod ==
    /\ \A i \in StoredPeriods :
            log[i].itmp = 0 =>
                /\ EntryRows(i) = <<>>
                /\ stress_period_data[i] = [kind |-> "int", val |-> 0, id |-> 0]
                /\ log[i].lines = 1
                /\ log[i].triples = <<>>
    /\ \A p \in 1..Len(D.stress_period_data) :
            D.stress_period_data[p] = <<>> =>
                write_transient(<<D.stress_period_data[p]>>)
                    = <<RJust(Str(0), 10) \o NL>>

\* an empty period after a period with records, dataset 8 in use
C8_Witness ==
    /\ Len(stress_period_data) >= 2
    /\ icalc > 0
    /\ log[2].itmp = 0
    /\ Len(EntryRows(1)) >= 1

\* C9: load of the file write_file wrote for a package returns, and with
\* the periods of the package.
C9_RoundTrip ==
    (D # NoPackage /\ pc \in {"done", "error"}) =>
        /\ pc = "done"
        /\ ret # "None"
        /\ Len(stress_period_data) = Len(D.stress_period_data)
        /\ \A i \in StoredPeriods : EntryRows(i) = D.stress_period_data[i]

\* C10: a record in free format and the same record in the columns of
\* widths 5, 5, 5, 5, 5, 15, 10, 10, 10, 10 give the same row, and a line
\* whose columns touch, which only the fixed-column branch can separate,
\* never ends load with an error of that branch.
C10_DualFormat ==
    /\ line \in {FixedA, FixedB} => err # "TypeError"
    /\ \A pair \in {<<FreeA, FixedA>>, <<FreeB, FixedB>>} :
        (pc = "record" /\ ibnd > 0 /\ line = pair[2] /\ aux_names = <<>>) =>
            Last(Last(log).origin) = ParseRecordLine(pair[1], aux_names).row

\* C11: when load or write_file has ended, by a return or by an error, no
\* file it opened itself is still open.
C11_HandlesClosed ==
    pc \in {"done", "error"} =>
        (opened.load # "open" /\ opened.write_file # "open")

HeaderPcs == {"write", "open", "header", "dataset1", "dataset2"}

\* the 'aux <name>' pairs among the tokens after the eighth
AuxPairs(t) ==
    Cardinality({c \in 9..(Len(t) - 1) : lower(t[c]) = <<"a", "u", "x">>})

\* C14: once the period loop has begun the auxiliary names are those of the
\* global control line, one per 'aux <name>' pair, they never change, and
\* every record of every stored entry has the ten fields of the schema and
\* one field per auxiliary name.
C14_FixedSchema ==
    /\ [](\A i \in StoredPeriods : \A r \in 1..Len(EntryRows(i)) :
            Len(EntryRows(i)[r]) = Len(DefaultDtype) + Len(aux_names))
    /\ [][(pc = "dataset2" /\ pc' # "error") =>
            Len(aux_names') = AuxPairs(split(line))]_vars
    /\ [][pc \notin HeaderPcs => aux_names' = aux_names]_vars

\* a period of records with an auxiliary value, then an empty period and a
\* carry-forward
C14_Witness ==
    /\ Len(aux_names) = 1
    /\ Len(stress_period_data) >= 2
    /\ Len(EntryRows(1)) >= 1
    /\ log[2].itmp <= 0

\* the lines a stored period takes after its control line when every period
\* with itmp > 0 takes itmp record or usage lines
LinesDeclared(i) ==
    IF log[i].itmp <= 0 THEN 0
    ELSE log[i].itmp + (IF icalc > 0 THEN log[i].itmp ELSE 0)

\* the same, a period with an OPEN/CLOSE line taking its record lines up to
\* that line only
LinesTaken(i) ==
    IF log[i].itmp <= 0 THEN 0
    ELSE (IF log[i].oc # <<>> THEN log[i].oc[1].at ELSE log[i].itmp)
         + (IF icalc > 0 THEN log[i].itmp ELSE 0)

\* the control line of every period after the first is the line after the
\* last line of the period before it
InOrder ==
    \A i \in 2..Len(log) : log[i].first = log[i - 1].first + log[i - 1].lines

C16_NoAliasing ==
    /\ [](\A i \in StoredPeriods :
            stress_period_data[i].kind = "recarray" =>
                /\ current # Ref(stress_period_data[i].id)
                /\ \A j \in StoredPeriods \ {i} :
                        stress_period_data[j].kind = "recarray" =>
                            stress_period_data[j].id # stress_period_data[i].id)
    /\ [][\A i \in StoredPeriods :
            /\ stress_period_data'[i] = stress_period_data[i]
            /\ stress_period_data[i].kind = "recarray" =>
                    heap'[stress_period_data[i].id]
                        = heap[stress_period_data[i].id]]_vars

\* a period with records, its carry-forward, then a new period of records
\* whose indices were decremented in place
C16_Witness ==
    /\ Len(stress_period_data) = 3
    /\ log[2].itmp < 0
    /\ log[3].itmp > 0
    /\ Len(EntryRows(1)) >= 1
    /\ EntryRows(3) # EntryRows(1)

\* C17: load ends, by returning or by an error, whatever the input: the
\* period loop never runs more than nper times and the loops over the lines
\* of a period never more than itmp times.
C17_Termination ==
    /\ [](iper <= nper)
    /\ [](pc \in {"usage", "record", "ds8"} => (0 <= ibnd /\ ibnd < itmp))
    /\ <>(pc \in {"done", "error"})

\* the header loop met the end of a file that holds a comment line only
C17_Witness ==
    /\ pc = "error" /\ err = "IndexError"
    /\ line = CommentLine
    /\ nread = 1
    /\ f.rest = <<>> /\ log = <<>>

=============================================================================
